---- MODULE Spec2Model ----
(***************************************************************************)
(* Model of packages/vite/src/node/logger.ts: the console logger returned  *)
(* by createLogger (severity gate, repeated-message collapsing, screen     *)
(* clearing, one-time warnings, logged-error bookkeeping).                 *)
(*                                                                         *)
(* lastType, lastMsg and sameCount are module-level `let` bindings in the  *)
(* source, so the model keeps ONE copy of them for the whole process;      *)
(* everything declared inside createLogger is kept per logger.             *)
(***************************************************************************)
EXTENDS Integers, Sequences, FiniteSets

\* ---------------------------------------------------------------- bounds
\* sameCount is an unbounded JS number; repeats are cut off at this value.
MaxSame == 2

\* ------------------------------------------------------- input universes
Loggers == {"A", "B"}
Messages == {"m1", "m2"}
\* Two distinct error objects; both carry the same .message text.
Errors == {"e1", "e2"}
ErrorMessage == [e \in Errors |-> "boom"]
NoError == "none"
Undefined == "undefined"
\* the logger whose own call history is recorded (the other logger is the bystander)
Observed == "A"

LogType == {"error", "warn", "info"}
LogLevel == LogType \cup {"silent"}
LogLevels == [silent |-> 0, error |-> 1, warn |-> 2, info |-> 3]

DefaultPrefix == "[vite]"
DefaultLevel == "info"

\* LogErrorOptions: clear?, timestamp?, error?
LogOptions == [clear : BOOLEAN, timestamp : BOOLEAN, error : {NoError}]
LogErrorOptions == [clear : BOOLEAN, timestamp : BOOLEAN, error : Errors \cup {NoError}]
\* the same without the timestamp flag
PlainOptions == [clear : BOOLEAN, timestamp : {FALSE}, error : {NoError}]
PlainErrorOptions == [clear : BOOLEAN, timestamp : {FALSE}, error : Errors \cup {NoError}]
\* options = {} (the default of output's third parameter)
EmptyOptions == [clear |-> FALSE, timestamp |-> FALSE, error |-> NoError]

VARIABLES
    lastType,        \* module-level: LogType | undefined
    lastMsg,         \* module-level: string | undefined
    sameCount,       \* module-level: number
    isTTY,           \* process.stdout.isTTY
    envCI,           \* process.env.CI is set
    created,         \* created[l]: createLogger has returned logger l
    thresh,          \* closure constant thresh of logger l
    canClearScreen,  \* closure constant canClearScreen of logger l
    hasWarned,       \* logger.hasWarned
    warnedMessages,  \* closure Set warnedMessages of logger l
    loggedErrors,    \* closure WeakSet loggedErrors of logger l
    call,            \* the operation executed by the last step, with its arguments and result
    out,             \* what that operation did to the terminal, in order
    accepted,        \* history: the last (type, msg) of logger Observed that passed the gate, and the length of its run
    passedErrors,    \* history: per logger, the error objects handed to error()
    onceCalls,       \* history: per logger and message, number of warnOnce calls (saturating at 2)
    onceShown,       \* history: per logger and message, number of console calls made by warnOnce (saturating at 2)
    urls             \* the last run of printServerUrls: its arguments, the interface list it read,
                     \* which interfaces its filter kept, and the messages it passed to info, in order

globals == <<lastType, lastMsg, sameCount>>
env == <<isTTY, envCI>>
perLogger == <<created, thresh, canClearScreen, hasWarned, warnedMessages, loggedErrors>>
history == <<accepted, passedErrors, onceCalls, onceShown>>
vars == <<lastType, lastMsg, sameCount, isTTY, envCI, created, thresh, canClearScreen,
          hasWarned, warnedMessages, loggedErrors, call, out, accepted, passedErrors,
          onceCalls, onceShown, urls>>

\* ------------------------------------------------------------ pure parts
Min(a, b) == IF a < b THEN a ELSE b

\* const method = type === 'info' ? 'log' : type
Method(type) == IF type = "info" THEN "log" ELSE type

\* the colour of the prefix tag
TagColor(type) ==
    IF type = "info" THEN "cyan" ELSE IF type = "warn" THEN "yellow" ELSE "red"

\* format(): the first console argument
Format(type, msg, options) ==
    IF options.timestamp
    THEN <<"dim(time)", TagColor(type), DefaultPrefix, msg>>
    ELSE <<msg>>

\* colors.yellow(`(x${sameCount + 1})`): the second console argument
RepeatSuffix(n) == <<"(x", n + 1, ")">>

\* console[method](format())  /  console[method](format(), suffix)
ConsoleCall(type, msg, options) ==
    [kind |-> "print", method |-> Method(type), text |-> Format(type, msg, options),
     suffix |-> <<>>]
ConsoleCallRepeat(type, msg, options, n) ==
    [kind |-> "print", method |-> Method(type), text |-> Format(type, msg, options),
     suffix |-> RepeatSuffix(n)]

\* the console calls / the screen clears among the effects o of one operation
Shown(o) == SelectSeq(o, LAMBDA e : e.kind = "print")
Clears(o) == SelectSeq(o, LAMBDA e : e.kind = "clear")

\* function clearScreen(): blank lines, cursor to origin, erase down
ClearScreenPrimitive == <<[kind |-> "clear"]>>

\* const clear = canClearScreen ? clearScreen : () => {}
Clear(l) == IF canClearScreen[l] THEN ClearScreenPrimitive ELSE <<>>

\* the gate with a strict comparison
GateStrict(l, type) == thresh[l] > LogLevels[type]

\* thresh >= LogLevels[type]
Gate(l, type) == thresh[l] >= LogLevels[type]

\* type === lastType && msg === lastMsg
SameAsLast(type, msg) == type = lastType /\ msg = lastMsg

\* the permission computed without the CI indicator
ComputeCanClearIgnoringCI(allow) == allow /\ isTTY

\* allowClearScreen && process.stdout.isTTY && !process.env.CI
ComputeCanClear(allow) == allow /\ isTTY /\ ~envCI

\* ------------------------------------------------------------ output()
\* if (options.error) loggedErrors.add(options.error), inside the gate
RecordError(l, type, options) ==
    IF Gate(l, type) /\ options.error # NoError
    THEN loggedErrors[l] \cup {options.error}
    ELSE loggedErrors[l]

\* output() that collapses repeats without looking at canClearScreen
OutputEventsAlwaysCollapse(l, type, msg, options) ==
    IF Gate(l, type)
    THEN IF SameAsLast(type, msg)
         THEN Clear(l) \o <<ConsoleCallRepeat(type, msg, options, sameCount + 1)>>
         ELSE (IF options.clear THEN Clear(l) ELSE <<>>)
              \o <<ConsoleCall(type, msg, options)>>
    ELSE <<>>

\* output() that writes to the console first and clears afterwards
OutputEventsClearLast(l, type, msg, options) ==
    IF Gate(l, type)
    THEN IF canClearScreen[l]
         THEN IF SameAsLast(type, msg)
              THEN <<ConsoleCallRepeat(type, msg, options, sameCount + 1)>> \o Clear(l)
              ELSE <<ConsoleCall(type, msg, options)>>
                   \o (IF options.clear THEN Clear(l) ELSE <<>>)
         ELSE <<ConsoleCall(type, msg, options)>>
    ELSE <<>>

\* the console / terminal effects of output(type, msg, options), in order
OutputEvents(l, type, msg, options) ==
    IF Gate(l, type)
    THEN IF canClearScreen[l]
         THEN IF SameAsLast(type, msg)
              THEN Clear(l) \o <<ConsoleCallRepeat(type, msg, options, sameCount + 1)>>
              ELSE (IF options.clear THEN Clear(l) ELSE <<>>)
                   \o <<ConsoleCall(type, msg, options)>>
         ELSE <<ConsoleCall(type, msg, options)>>
    ELSE <<>>

\* output() whose else branch leaves sameCount alone
OutputSameCountNoReset(l, type, msg) ==
    IF Gate(l, type) /\ canClearScreen[l] /\ SameAsLast(type, msg)
    THEN sameCount + 1
    ELSE sameCount

\* sameCount after output(type, msg, options)
OutputSameCount(l, type, msg) ==
    IF Gate(l, type) /\ canClearScreen[l]
    THEN IF SameAsLast(type, msg) THEN sameCount + 1 ELSE 0
    ELSE sameCount

\* lastType / lastMsg after output(type, msg, options)
OutputLastType(l, type, msg) ==
    IF Gate(l, type) /\ canClearScreen[l] /\ ~SameAsLast(type, msg) THEN type ELSE lastType
OutputLastMsg(l, type, msg) ==
    IF Gate(l, type) /\ canClearScreen[l] /\ ~SameAsLast(type, msg) THEN msg ELSE lastMsg

NoRun == [type |-> Undefined, msg |-> Undefined, n |-> 0]

\* history: the run of consecutive calls on Observed that passed the gate with one (type, msg)
AcceptedAfter(l, type, msg) ==
    IF l = Observed /\ thresh[l] >= LogLevels[type]
    THEN IF accepted.type = type /\ accepted.msg = msg
         THEN [type |-> type, msg |-> msg, n |-> Min(accepted.n + 1, MaxSame + 2)]
         ELSE [type |-> type, msg |-> msg, n |-> 1]
    ELSE accepted

\* function output(type, msg, options = {})
Output(l, type, msg, options) ==
    /\ OutputSameCount(l, type, msg) <= MaxSame
    /\ loggedErrors' = [loggedErrors EXCEPT ![l] = RecordError(l, type, options)]
    /\ sameCount' = OutputSameCount(l, type, msg)
    /\ lastType' = OutputLastType(l, type, msg)
    /\ lastMsg' = OutputLastMsg(l, type, msg)
    /\ out' = OutputEvents(l, type, msg, options)
    /\ accepted' = AcceptedAfter(l, type, msg)

Called(op, l, type, msg, options, ret) ==
    [op |-> op, logger |-> l, type |-> type, msg |-> msg, clear |-> options.clear,
     timestamp |-> options.timestamp, error |-> options.error, ret |-> ret]

NoCall == Called("none", "none", Undefined, Undefined, EmptyOptions, FALSE)

\* ------------------------------------------------------- createLogger()
\* createLogger(level, {allowClearScreen}), the path that builds a new logger
\* (no customLogger); level and allowClearScreen default to 'info' and true
CreateLogger(l, level, allow) ==
    /\ ~created[l]
    /\ created' = [created EXCEPT ![l] = TRUE]
    /\ thresh' = [thresh EXCEPT ![l] = LogLevels[level]]
    /\ canClearScreen' = [canClearScreen EXCEPT ![l] = ComputeCanClear(allow)]
    /\ hasWarned' = [hasWarned EXCEPT ![l] = FALSE]
    /\ warnedMessages' = [warnedMessages EXCEPT ![l] = {}]
    /\ loggedErrors' = [loggedErrors EXCEPT ![l] = {}]
    /\ call' = [Called("createLogger", l, level, Undefined, EmptyOptions, FALSE)
                  EXCEPT !.clear = allow]
    /\ out' = <<>>
    /\ UNCHANGED <<globals, env, history>>
    /\ UNCHANGED urls

\* createLogger that builds a logger although a customLogger was supplied
CreateLoggerReturnFresh(custom, fresh) == fresh

\* if (options.customLogger) { return options.customLogger }, else the new logger
CreateLoggerReturn(custom, fresh) == IF custom # Undefined THEN custom ELSE fresh

\* createLogger(level, {allowClearScreen, customLogger}) with a customLogger,
\* here a logger built earlier; call.msg carries the customLogger option and
\* call.logger the logger that is returned
CreateLoggerCustom(custom, fresh, level, allow) ==
    /\ created[custom] /\ ~created[fresh]
    /\ call' = [Called("customLogger", CreateLoggerReturn(custom, fresh), level, custom,
                       EmptyOptions, FALSE) EXCEPT !.clear = allow]
    /\ out' = <<>>
    /\ UNCHANGED <<globals, env, perLogger, history, urls>>

\* ------------------------------------------------------ logger methods
\* info(msg, opts) { output('info', msg, opts) }
Info(l, msg, opts) ==
    /\ created[l]
    /\ Output(l, "info", msg, opts)
    /\ call' = Called("info", l, "info", msg, opts, FALSE)
    /\ UNCHANGED <<env, created, thresh, canClearScreen, hasWarned, warnedMessages,
                   passedErrors, onceCalls, onceShown>>
    /\ UNCHANGED urls

\* hasWarned set only when a warning would be shown
SetHasWarnedIfShown(l) == [hasWarned EXCEPT ![l] = @ \/ thresh[l] >= LogLevels["warn"]]

\* logger.hasWarned = true, first statement of warn / warnOnce / error
SetHasWarned(l) == [hasWarned EXCEPT ![l] = TRUE]

\* warn(msg, opts) { logger.hasWarned = true; output('warn', msg, opts) }
Warn(l, msg, opts) ==
    /\ created[l]
    /\ hasWarned' = SetHasWarned(l)
    /\ Output(l, "warn", msg, opts)
    /\ call' = Called("warn", l, "warn", msg, opts, FALSE)
    /\ UNCHANGED <<env, created, thresh, canClearScreen, warnedMessages,
                   passedErrors, onceCalls, onceShown>>
    /\ UNCHANGED urls

\* a test that only asks whether the logger has warned once about anything
AlreadyWarnedAny(l, msg) == warnedMessages[l] # {}

\* warnedMessages.has(msg)
AlreadyWarned(l, msg) == msg \in warnedMessages[l]

Bump(f, l, msg, by) == [f EXCEPT ![l][msg] = Min(@ + by, 2)]

\* warnOnce(msg, opts)
WarnOnce(l, msg, opts) ==
    /\ created[l]
    /\ call' = Called("warnOnce", l, "warn", msg, opts, FALSE)
    /\ onceCalls' = Bump(onceCalls, l, msg, 1)
    /\ IF AlreadyWarned(l, msg)
       THEN /\ out' = <<>>
            /\ UNCHANGED <<globals, hasWarned, warnedMessages, loggedErrors, accepted,
                           onceShown>>
       ELSE /\ hasWarned' = SetHasWarned(l)
            /\ Output(l, "warn", msg, opts)
            /\ warnedMessages' = [warnedMessages EXCEPT ![l] = @ \cup {msg}]
            /\ onceShown' = Bump(onceShown, l, msg, Len(Shown(OutputEvents(l, "warn", msg, opts))))
    /\ UNCHANGED <<env, created, thresh, canClearScreen, passedErrors>>
    /\ UNCHANGED urls

\* error(msg, opts) { logger.hasWarned = true; output('error', msg, opts) }
Error(l, msg, opts) ==
    /\ created[l]
    /\ hasWarned' = SetHasWarned(l)
    /\ Output(l, "error", msg, opts)
    /\ call' = Called("error", l, "error", msg, opts, FALSE)
    /\ passedErrors' = [passedErrors EXCEPT ![l] =
                           IF opts.error # NoError THEN @ \cup {opts.error} ELSE @]
    /\ UNCHANGED <<env, created, thresh, canClearScreen, warnedMessages,
                   onceCalls, onceShown>>
    /\ UNCHANGED urls

\* clearScreen(type) without the threshold test
ClearScreenUngated(l, type) == Clear(l)

\* the terminal effect of logger.clearScreen(type)
ClearScreenEvents(l, type) == IF Gate(l, type) THEN Clear(l) ELSE <<>>

\* clearScreen(type) { if (thresh >= LogLevels[type]) clear() }
ClearScreen(l, type) ==
    /\ created[l]
    /\ out' = ClearScreenEvents(l, type)
    /\ call' = Called("clearScreen", l, type, Undefined, EmptyOptions, FALSE)
    /\ UNCHANGED <<globals, env, perLogger, history>>
    /\ UNCHANGED urls

\* membership by the error's message instead of its identity
LoggedErrorsHasMessage(l, e) == \E x \in loggedErrors[l] : ErrorMessage[x] = ErrorMessage[e]

\* loggedErrors.has(error)
LoggedErrorsHas(l, e) == e \in loggedErrors[l]

\* hasErrorLogged(error) { return loggedErrors.has(error) }
HasErrorLogged(l, e) ==
    /\ created[l]
    /\ out' = <<>>
    /\ call' = [Called("hasErrorLogged", l, Undefined, Undefined, EmptyOptions,
                       LoggedErrorsHas(l, e)) EXCEPT !.error = e]
    /\ UNCHANGED <<globals, env, perLogger, history>>
    /\ UNCHANGED urls

\* ------------------------------------------------------- environment
\* process.stdout.isTTY / process.env.CI are process state outside the logger
SetTTY(b) ==
    /\ isTTY # b
    /\ isTTY' = b
    /\ call' = NoCall
    /\ out' = <<>>
    /\ UNCHANGED <<globals, envCI, perLogger, history>>
    /\ UNCHANGED urls

SetCI(b) ==
    /\ envCI # b
    /\ envCI' = b
    /\ call' = NoCall
    /\ out' = <<>>
    /\ UNCHANGED <<globals, isTTY, perLogger, history>>
    /\ UNCHANGED urls

\* ------------------------------------------------------- strings
\* String.prototype.includes
Includes(s, t) == \E i \in 1..(Len(s) - Len(t) + 1) : SubSeq(s, i, i + Len(t) - 1) = t

\* the position of the first occurrence of t in s
IndexOf(s, t) ==
    CHOOSE i \in 1..(Len(s) - Len(t) + 1) :
        /\ SubSeq(s, i, i + Len(t) - 1) = t
        /\ \A j \in 1..(i - 1) : SubSeq(s, j, j + Len(t) - 1) # t

\* String.prototype.replace with a string pattern: the first occurrence only
Replace(s, pat, rep) ==
    IF Includes(s, pat)
    THEN SubSeq(s, 1, IndexOf(s, pat) - 1) \o rep
         \o SubSeq(s, IndexOf(s, pat) + Len(pat), Len(s))
    ELSE s

\* picocolors: the text wrapped in a style
Bold(s) == "<bold>" \o s \o "</bold>"
Cyan(s) == "<cyan>" \o s \o "</cyan>"
Dim(s) == "<dim>" \o s \o "</dim>"

\* ----------------------------------------------------- printServerUrls()
\* the most interfaces os.networkInterfaces() lists
MaxIfaces == 2

\* './constants' (0.0.0.0 and :: , the "any" addresses of the glossary)
DEFAULT_IPV4_ADDR == "0.0.0.0"
DEFAULT_IPV6_ADDR == "::"

\* Hostname { host: string | undefined, name: string }, as resolveHostname returns it
Hosts == {Undefined, "127.0.0.1", "0.0.0.0", "::", "::1", "192.168.1.5", "fe80::1"}
Names == {"localhost", "127.0.0.1"}
Hostnames == [host : Hosts, name : Names]
Protocols == {"http", "https"}
Ports == {3000, 5173}
Bases == {"/", "/app/"}

\* os.NetworkInterfaceInfo { address, family }
Details ==
    { [address |-> "127.0.0.1", family |-> "IPv4"],
      [address |-> "127.0.0.10", family |-> "IPv4"],
      [address |-> "192.168.1.5", family |-> "IPv4"],
      [address |-> "::1", family |-> "IPv6"],
      [address |-> "fe80::1", family |-> "IPv6"] }
ListsOver(D) == UNION { [1..n -> D] : n \in 0..MaxIfaces }
InterfaceLists == ListsOver(Details)

\* `${port}`
PortText(port) == IF port = 3000 THEN "3000" ELSE "5173"

\* an IPv6 arm that shows every IPv6 address once a host other than :: is set
KeepIPv6AnyHost(hostname, detail) ==
    /\ hostname.host # Undefined /\ hostname.host # ""
    /\ hostname.host # "::"

\* the IPv6 arm of the filter
KeepIPv6(hostname, detail) ==
    /\ hostname.host # Undefined /\ hostname.host # ""
    /\ Includes(hostname.host, detail.address)
    /\ hostname.host # "::"

\* the IPv4 arm of the filter
KeepIPv4(hostname, detail) ==
    LET isIpv4DefaultAddress == Includes(detail.address, "127.0.0.1")
    IN  \/ hostname.host = Undefined
        \/ hostname.host = DEFAULT_IPV4_ADDR
        \/ hostname.host = DEFAULT_IPV6_ADDR
        \/ Includes(hostname.host, detail.address)
        \/ (isIpv4DefaultAddress /\ hostname.host # "::1")

\* .filter((detail) => ...)
Keep(hostname, detail) ==
    IF detail.address = "" THEN FALSE
    ELSE IF detail.family = "IPv6" THEN KeepIPv6(hostname, detail)
    ELSE KeepIPv4(hostname, detail)

\* const type = ... ? 'Local:   ' : 'Network: '
LineType(detail) ==
    IF Includes(detail.address, "127.0.0.1") \/ Includes(detail.address, "::1")
    THEN "Local:   " ELSE "Network: "

\* let host = detail.address.replace('127.0.0.1', hostname.name), bracketed if it has a colon
LineHost(hostname, detail) ==
    LET host == Replace(detail.address, "127.0.0.1", hostname.name)
    IN  IF Includes(host, ":") THEN "[" \o host \o "]" ELSE host

\* .map((detail) => ...): the message for one interface
ToLine(hostname, protocol, port, base, detail) ==
    "  > " \o LineType(detail) \o " "
    \o Cyan(protocol \o "://" \o LineHost(hostname, detail) \o ":" \o Bold(PortText(port)) \o base)

\* a map that hands the messages over last interface first
MapLinesReversed(hostname, protocol, port, base, details) ==
    [i \in 1..Len(details) |->
        ToLine(hostname, protocol, port, base, details[Len(details) + 1 - i])]

\* .map over the kept interfaces, in their order
MapLines(hostname, protocol, port, base, details) ==
    [i \in 1..Len(details) |-> ToLine(hostname, protocol, port, base, details[i])]

\* a loopback branch that always adds the advisory
LoopbackLinesAlwaysAdvise(hostname, protocol, port, base) ==
    << "  > Local: "
       \o Cyan(protocol \o "://" \o hostname.name \o ":" \o Bold(PortText(port)) \o base),
       "  > Network: " \o Dim("use --host to expose") >>

\* the branch hostname.host === '127.0.0.1' (the advisory text is written
\* with back quotes around --host in the source)
LoopbackLines(hostname, protocol, port, base) ==
    << "  > Local: "
       \o Cyan(protocol \o "://" \o hostname.name \o ":" \o Bold(PortText(port)) \o base) >>
    \o (IF hostname.name # "127.0.0.1"
        THEN << "  > Network: " \o Dim("use --host to expose") >>
        ELSE <<>>)

\* which entries of the interface list the filter kept (none is looked at
\* in the loopback branch)
KeptOf(hostname, ifaces) ==
    [i \in 1..Len(ifaces) |-> hostname.host # "127.0.0.1" /\ Keep(hostname, ifaces[i])]

\* the messages printServerUrls passes to info, in order
UrlLines(hostname, protocol, port, base, ifaces) ==
    IF hostname.host = "127.0.0.1"
    THEN LoopbackLines(hostname, protocol, port, base)
    ELSE MapLines(hostname, protocol, port, base,
                  SelectSeq(ifaces, LAMBDA d : Keep(hostname, d)))

UrlsOf(hostname, protocol, port, base, ifaces) ==
    [ran |-> TRUE, hostname |-> hostname, protocol |-> protocol, port |-> port,
     base |-> base, interfaces |-> ifaces, kept |-> KeptOf(hostname, ifaces),
     lines |-> UrlLines(hostname, protocol, port, base, ifaces)]

NoUrls ==
    [ran |-> FALSE, hostname |-> [host |-> Undefined, name |-> "localhost"],
     protocol |-> "http", port |-> 3000, base |-> "/", interfaces |-> <<>>,
     kept |-> <<>>, lines |-> <<>>]

\* printServerUrls(hostname, protocol, port, base, info) with an info that
\* only records its argument
PrintServerUrls(hostname, protocol, port, base, ifaces) ==
    /\ urls' = UrlsOf(hostname, protocol, port, base, ifaces)
    /\ call' = NoCall
    /\ out' = <<>>
    /\ UNCHANGED <<globals, env, perLogger, history>>

\* --------------------------------------------- printCommonServerUrls()
\* server.address(): an AddressInfo, a pipe / socket path (a string) or null
Addresses ==
    { [kind |-> "AddressInfo", address |-> "127.0.0.1", port |-> 3000],
      [kind |-> "string"],
      [kind |-> "null"] }

\* const isAddressInfo = (x) => x?.address
IsAddressInfo(x) == x.kind = "AddressInfo" /\ x.address # ""

\* options.https ? 'https' : 'http'
ProtocolOf(https) == IF https THEN "https" ELSE "http"

\* the module-level repeat state and the console as a record, to thread
\* them through the info calls of one report
Threaded == [lastType |-> lastType, lastMsg |-> lastMsg, sameCount |-> sameCount,
             accepted |-> accepted, out |-> <<>>]

\* info(msg): output('info', msg, undefined) run from the threaded state g
InfoFrom(l, g, msg) ==
    IF Gate(l, "info")
    THEN LET acc == IF l = Observed
                    THEN IF g.accepted.type = "info" /\ g.accepted.msg = msg
                         THEN [type |-> "info", msg |-> msg,
                               n |-> Min(g.accepted.n + 1, MaxSame + 2)]
                         ELSE [type |-> "info", msg |-> msg, n |-> 1]
                    ELSE g.accepted
         IN  IF canClearScreen[l]
             THEN IF "info" = g.lastType /\ msg = g.lastMsg
                  THEN [g EXCEPT !.sameCount = @ + 1, !.accepted = acc,
                                 !.out = @ \o Clear(l) \o
                                     <<ConsoleCallRepeat("info", msg, EmptyOptions,
                                                         g.sameCount + 1)>>]
                  ELSE [g EXCEPT !.sameCount = 0, !.lastMsg = msg, !.lastType = "info",
                                 !.accepted = acc,
                                 !.out = @ \o <<ConsoleCall("info", msg, EmptyOptions)>>]
             ELSE [g EXCEPT !.accepted = acc,
                            !.out = @ \o <<ConsoleCall("info", msg, EmptyOptions)>>]
    ELSE g

\* .forEach((msg) => info(msg)), and the one or two info calls of the loopback branch
RECURSIVE InfoEach(_, _, _)
InfoEach(l, g, lines) ==
    IF lines = <<>> THEN g ELSE InfoEach(l, InfoFrom(l, g, Head(lines)), Tail(lines))

\* printCommonServerUrls(server, options, config) with config.logger = l;
\* hostname is what resolveHostname(options.host) returns, ifaces what
\* os.networkInterfaces() lists
PrintCommonServerUrls(l, address, hostname, https, base, ifaces) ==
    /\ created[l]
    /\ LET ok == IsAddressInfo(address)
           lines == IF ok
                    THEN UrlLines(hostname, ProtocolOf(https), address.port, base, ifaces)
                    ELSE <<>>
           g == InfoEach(l, Threaded, lines)
       IN  /\ g.sameCount <= MaxSame
           /\ lastType' = g.lastType
           /\ lastMsg' = g.lastMsg
           /\ sameCount' = g.sameCount
           /\ accepted' = g.accepted
           /\ out' = g.out
           /\ urls' = IF ok
                      THEN UrlsOf(hostname, ProtocolOf(https), address.port, base, ifaces)
                      ELSE NoUrls
           /\ call' = Called("printCommonServerUrls", l, "info", address.kind,
                             EmptyOptions, ok)
    /\ UNCHANGED <<env, perLogger, passedErrors, onceCalls, onceShown>>

\* ------------------------------------------------------ specification
InitWith(tty, ci) ==
    /\ lastType = Undefined
    /\ lastMsg = Undefined
    /\ sameCount = 0
    /\ isTTY \in tty
    /\ envCI \in ci
    /\ created = [l \in Loggers |-> FALSE]
    /\ thresh = [l \in Loggers |-> LogLevels[DefaultLevel]]
    /\ canClearScreen = [l \in Loggers |-> FALSE]
    /\ hasWarned = [l \in Loggers |-> FALSE]
    /\ warnedMessages = [l \in Loggers |-> {}]
    /\ loggedErrors = [l \in Loggers |-> {}]
    /\ call = NoCall
    /\ out = <<>>
    /\ accepted = NoRun
    /\ passedErrors = [l \in Loggers |-> {}]
    /\ onceCalls = [l \in Loggers |-> [m \in Messages |-> 0]]
    /\ onceShown = [l \in Loggers |-> [m \in Messages |-> 0]]
    /\ urls = NoUrls

\* One logger, any terminal / CI situation, which may change at any time:
\* the severity gate, the collapsing of repeats and the screen clearing.
Init == InitWith(BOOLEAN, BOOLEAN)

Next ==
    \/ \E level \in LogLevel, allow \in BOOLEAN : CreateLogger(Observed, level, allow)
    \/ \E m \in Messages, o \in LogOptions : Info(Observed, m, o)
    \/ \E m \in Messages, o \in LogOptions : Warn(Observed, m, o)
    \/ \E m \in Messages, o \in LogOptions : Error(Observed, m, o)
    \/ \E t \in LogType : ClearScreen(Observed, t)
    \/ \E b \in BOOLEAN : SetTTY(b)
    \/ \E b \in BOOLEAN : SetCI(b)

Spec == Init /\ [][Next]_vars

\* Two loggers from two createLogger calls in one process, on an interactive
\* terminal outside CI.
InitPair == InitWith({TRUE}, {FALSE})

NextPair ==
    \/ \E l \in Loggers, level \in LogLevel, allow \in BOOLEAN : CreateLogger(l, level, allow)
    \/ \E l \in Loggers, m \in Messages, o \in LogOptions : Info(l, m, o)
    \/ \E l \in Loggers, m \in Messages, o \in PlainOptions : Warn(l, m, o)
    \/ \E l \in Loggers, m \in Messages, o \in PlainOptions : Error(l, m, o)

SpecPair == InitPair /\ [][NextPair]_vars

\* One logger, every method of the Logger interface, error objects included.
InitAll == InitWith({TRUE}, {FALSE})

NextAll ==
    \/ \E level \in LogLevel, allow \in BOOLEAN : CreateLogger(Observed, level, allow)
    \/ \E m \in Messages, o \in PlainOptions : Info(Observed, m, o)
    \/ \E m \in Messages, o \in PlainOptions : Warn(Observed, m, o)
    \/ \E m \in Messages, o \in PlainOptions : WarnOnce(Observed, m, o)
    \/ \E m \in Messages, o \in PlainErrorOptions : Error(Observed, m, o)
    \/ \E t \in LogType : ClearScreen(Observed, t)
    \/ \E e \in Errors : HasErrorLogged(Observed, e)
    \/ \E fresh \in Loggers \ {Observed}, level \in LogLevel, allow \in BOOLEAN :
            CreateLoggerCustom(Observed, fresh, level, allow)

SpecAll == InitAll /\ [][NextAll]_vars

\* printServerUrls alone: the arguments and the interface list are drawn
\* at the start, then the function runs on them.
UrlInputs ==
    [ran : {FALSE}, hostname : Hostnames, protocol : Protocols, port : Ports, base : Bases,
     interfaces : InterfaceLists, kept : {<<>>}, lines : {<<>>}]

InitUrls ==
    /\ lastType = Undefined
    /\ lastMsg = Undefined
    /\ sameCount = 0
    /\ isTTY = TRUE
    /\ envCI = FALSE
    /\ created = [l \in Loggers |-> FALSE]
    /\ thresh = [l \in Loggers |-> LogLevels[DefaultLevel]]
    /\ canClearScreen = [l \in Loggers |-> FALSE]
    /\ hasWarned = [l \in Loggers |-> FALSE]
    /\ warnedMessages = [l \in Loggers |-> {}]
    /\ loggedErrors = [l \in Loggers |-> {}]
    /\ call = NoCall
    /\ out = <<>>
    /\ accepted = NoRun
    /\ passedErrors = [l \in Loggers |-> {}]
    /\ onceCalls = [l \in Loggers |-> [m \in Messages |-> 0]]
    /\ onceShown = [l \in Loggers |-> [m \in Messages |-> 0]]
    /\ urls \in UrlInputs

NextUrls ==
    /\ ~urls.ran
    /\ PrintServerUrls(urls.hostname, urls.protocol, urls.port, urls.base, urls.interfaces)

SpecUrls == InitUrls /\ [][NextUrls]_vars

\* A server reporting its URLs through one logger: resolved hostnames on and
\* off the loopback branch, interface lists that may name an address twice.
ServerHostnames == [host : {Undefined, "127.0.0.1"}, name : {"localhost", "127.0.0.1"}]
ServerDetails ==
    { [address |-> "127.0.0.1", family |-> "IPv4"],
      [address |-> "192.168.1.5", family |-> "IPv4"] }

InitServer == InitWith({TRUE}, {FALSE})

NextServer ==
    \/ \E level \in LogLevel, allow \in BOOLEAN : CreateLogger(Observed, level, allow)
    \/ \E a \in Addresses, h \in ServerHostnames, https \in BOOLEAN,
          ifaces \in ListsOver(ServerDetails) :
            PrintCommonServerUrls(Observed, a, h, https, "/", ifaces)

SpecServer == InitServer /\ [][NextServer]_vars

\* ------------------------------------------------------------ properties
LogOps == {"info", "warn", "error"}
Rank(type) == LogLevels[type]

\* C1: info / warn / error reach the console exactly when the logger's
\* threshold is at least the rank of the call's type; a call below the gate
\* writes nothing, clears nothing and leaves lastType, lastMsg and sameCount
\* as they were.
C1_GateInv ==
    call.op \in LogOps =>
        /\ (Len(Shown(out)) > 0) <=> (thresh[call.logger] >= Rank(call.type))
        /\ Rank(call.type) > thresh[call.logger] => out = <<>>
C1_GateStep ==
    (call'.op \in LogOps /\ Rank(call'.type) > thresh[call'.logger])
        => UNCHANGED <<lastType, lastMsg, sameCount>>
C1_SeverityGate == []C1_GateInv /\ [][C1_GateStep]_vars
\* a warn call suppressed by threshold error, after an error was shown twice
C1_Witness ==
    /\ call.op = "warn" /\ thresh[call.logger] = 1 /\ out = <<>>
    /\ lastType = "error" /\ sameCount = 1

\* the last step was an info / warn / error call on l that passed the gate
AcceptedOn(l) ==
    call.op \in LogOps /\ call.logger = l /\ thresh[l] >= Rank(call.type)
Kinds(o) == [i \in 1..Len(o) |-> o[i].kind]
XSuffix(n) == <<"(x", n, ")">>

\* C2: on a logger that may clear the screen, the first accepted call of a
\* run of identical (type, message) calls on that logger is written without
\* a suffix and the k-th repeat of the run is written with (x k+1).
C2_RepeatSuffix ==
    (AcceptedOn(Observed) /\ canClearScreen[Observed] /\ accepted.n <= MaxSame + 1)
        => /\ Len(Shown(out)) = 1
           /\ Shown(out)[1].suffix = IF accepted.n = 1 THEN <<>> ELSE XSuffix(accepted.n)

\* C3: what a call on one logger writes (suffix or not, screen cleared or not)
\* is determined by the earlier calls on that same logger alone; the first
\* call of a run has no suffix and clears only on options.clear, whatever
\* another logger has written in between.
C3_OwnHistoryOnly ==
    (AcceptedOn(Observed) /\ canClearScreen[Observed] /\ accepted.n <= MaxSame + 1)
        => /\ Kinds(out) = IF accepted.n > 1 \/ call.clear
                           THEN <<"clear", "print">> ELSE <<"print">>
           /\ out[Len(out)].suffix = IF accepted.n = 1 THEN <<>> ELSE XSuffix(accepted.n)

\* C8: on a logger that may not clear the screen, an accepted call writes the
\* formatted message once, without suffix and without clearing (options.clear
\* or not, repeated or not), and leaves lastType, lastMsg, sameCount alone.
C8_PlainInv ==
    \A l \in Loggers :
        (AcceptedOn(l) /\ ~canClearScreen[l]) =>
            out = << [kind |-> "print", method |-> Method(call.type),
                      text |-> Format(call.type, call.msg, call), suffix |-> <<>>] >>
C8_PlainStep ==
    (call'.op \in LogOps /\ ~canClearScreen[call'.logger])
        => UNCHANGED <<lastType, lastMsg, sameCount>>
C8_NoCollapseWithoutClear == []C8_PlainInv /\ [][C8_PlainStep]_vars
\* a logger without clearing repeats, with options.clear, exactly the pair
\* that the other logger wrote last
C8_Witness ==
    /\ AcceptedOn(Observed) /\ ~canClearScreen[Observed] /\ call.clear
    /\ accepted.n = 2 /\ lastType = call.type /\ lastMsg = call.msg /\ sameCount = 1
    /\ Len(out) = 1

\* C9: logger.clearScreen(type) runs the screen-clear primitive exactly when
\* threshold >= rank(type) and clearing is permitted; it never writes a
\* message and changes none of lastType, lastMsg, sameCount, warnedMessages,
\* loggedErrors, hasWarned.
C9_ClearInv ==
    call.op = "clearScreen" =>
        out = IF thresh[call.logger] >= Rank(call.type) /\ canClearScreen[call.logger]
              THEN <<[kind |-> "clear"]>> ELSE <<>>
C9_ClearStep ==
    call'.op = "clearScreen"
        => UNCHANGED <<lastType, lastMsg, sameCount, warnedMessages, loggedErrors, hasWarned>>
C9_ClearScreenGate == []C9_ClearInv /\ [][C9_ClearStep]_vars
\* clearScreen('warn') clears on a warn-level logger that has already logged
C9_Witness ==
    /\ call.op = "clearScreen" /\ call.type = "warn" /\ thresh[call.logger] = 2
    /\ out = <<[kind |-> "clear"]>>
    /\ lastType = "error" /\ hasWarned[call.logger]

\* C10: canClearScreen is computed once, by createLogger, as allowClearScreen
\* and isTTY and not CI, and never changes afterwards whatever happens to the
\* terminal or the environment; a logger created without the permission never
\* clears the screen and never writes a repeat suffix.
C10_AtCreate ==
    \A l \in Loggers :
        (~created[l] /\ created'[l])
            => canClearScreen'[l] = (call'.clear /\ isTTY /\ ~envCI)
C10_Fixed ==
    \A l \in Loggers : created[l] => canClearScreen'[l] = canClearScreen[l]
C10_NeverClears ==
    \A l \in Loggers :
        (created[l] /\ ~canClearScreen[l] /\ call.logger = l)
            => /\ Len(Clears(out)) = 0
               /\ \A i \in 1..Len(out) : out[i].kind = "print" => out[i].suffix = <<>>
C10_PermissionFixed ==
    []C10_NeverClears /\ [][C10_AtCreate]_vars /\ [][C10_Fixed]_vars
\* the logger was created without the permission; the terminal is now
\* interactive and CI is unset, and a call with options.clear is written plainly
C10_Witness ==
    /\ AcceptedOn(Observed) /\ ~canClearScreen[Observed] /\ call.clear
    /\ isTTY /\ ~envCI /\ Len(out) = 1

\* the options of the call made by the last step
CallOptions(c) == [clear |-> c.clear, timestamp |-> c.timestamp, error |-> c.error]
FirstWarnOnce == call'.op = "warnOnce" /\ call'.msg \notin warnedMessages[call'.logger]
RepeatedWarnOnce == call'.op = "warnOnce" /\ call'.msg \in warnedMessages[call'.logger]

\* C4 as stated: two warnOnce calls with one message write to the console
\* exactly once.
C4_ShownExactlyOnce ==
    \A l \in Loggers, m \in Messages : onceCalls[l][m] = 2 => onceShown[l][m] = 1

\* C4 (amended): the first warnOnce(m) is a warn(m) followed by adding m to
\* warnedMessages; every later warnOnce(m) writes nothing and changes nothing;
\* warnedMessages only grows; so however often warnOnce(m) is called it is
\* written once if the threshold admits warn output and never otherwise.
C4_Counts ==
    \A l \in Loggers, m \in Messages :
        onceCalls[l][m] >= 1 =>
            /\ m \in warnedMessages[l]
            /\ onceShown[l][m] = IF thresh[l] >= Rank("warn") THEN 1 ELSE 0
C4_First ==
    FirstWarnOnce =>
        /\ hasWarned' = [hasWarned EXCEPT ![call'.logger] = TRUE]
        /\ Output(call'.logger, "warn", call'.msg, CallOptions(call'))
        /\ warnedMessages' = [warnedMessages EXCEPT ![call'.logger] = @ \cup {call'.msg}]
C4_Repeated ==
    RepeatedWarnOnce =>
        /\ out' = <<>>
        /\ UNCHANGED <<hasWarned, warnedMessages, lastType, lastMsg, sameCount, loggedErrors>>
C4_Grows == \A l \in Loggers : warnedMessages[l] \subseteq warnedMessages'[l]
C4_WarnOnce ==
    []C4_Counts /\ [][C4_First]_vars /\ [][C4_Repeated]_vars /\ [][C4_Grows]_vars
\* the second warnOnce('m1') is silent although a warn('m1') at this point
\* would have been written as a repeat
C4_Witness ==
    /\ call.op = "warnOnce" /\ call.msg = "m1" /\ out = <<>>
    /\ onceCalls[call.logger]["m1"] = 2 /\ onceShown[call.logger]["m1"] = 1
    /\ canClearScreen[call.logger] /\ lastType = "warn" /\ lastMsg = "m1"

\* the program state of logger.ts (everything but the observation variables)
programState == <<lastType, lastMsg, sameCount, created, thresh, canClearScreen,
                  hasWarned, warnedMessages, loggedErrors>>

\* C5: on a logger whose threshold admits error output, hasErrorLogged(e)
\* answers whether this very object e was handed to error() on that logger
\* before (false before, true ever after, false for another object with the
\* same message), and hasErrorLogged changes nothing.
C5_Answer ==
    (call.op = "hasErrorLogged" /\ thresh[call.logger] >= Rank("error"))
        => call.ret = (call.error \in passedErrors[call.logger])
C5_Pure == call'.op = "hasErrorLogged" => UNCHANGED programState
C5_HasErrorLogged == []C5_Answer /\ [][C5_Pure]_vars
\* e1 was logged, e2 (same message) was not: hasErrorLogged(e2) is false
C5_Witness ==
    /\ call.op = "hasErrorLogged" /\ call.error = "e2" /\ call.ret = FALSE
    /\ passedErrors[call.logger] = {"e1"} /\ loggedErrors[call.logger] = {"e1"}
    /\ ErrorMessage["e1"] = ErrorMessage["e2"]

\* C6: whatever the threshold, right after error(msg, {error: e}) the object e
\* is in the logger's set of logged errors.
C6_RecordedWhateverThreshold ==
    (call.op = "error" /\ call.error # NoError)
        => call.error \in loggedErrors[call.logger]

\* C7: hasWarned starts false; warn, error and a first warnOnce set it
\* whatever the threshold; nothing resets it; info, clearScreen,
\* hasErrorLogged and a repeated warnOnce leave it alone.
C7_Fresh == call.op = "createLogger" => ~hasWarned[call.logger]
C7_Set ==
    (call'.op \in {"warn", "error"} \/ FirstWarnOnce) => hasWarned'[call'.logger]
C7_Sticky == \A l \in Loggers : hasWarned[l] => hasWarned'[l]
C7_Untouched ==
    (call'.op \in {"info", "clearScreen", "hasErrorLogged"} \/ RepeatedWarnOnce)
        => UNCHANGED hasWarned
C7_HasWarned ==
    []C7_Fresh /\ [][C7_Set]_vars /\ [][C7_Sticky]_vars /\ [][C7_Untouched]_vars
\* an error call on a silent logger writes nothing and still sets hasWarned
C7_Witness ==
    /\ call.op = "error" /\ thresh[call.logger] = 0 /\ out = <<>>
    /\ hasWarned[call.logger]

\* --------------------------------------------------- URL reporting
Wildcard == urls.ran /\ urls.hostname.host # "127.0.0.1"
Ifaces == urls.interfaces
KeptIndexes == {k \in 1..Len(Ifaces) : urls.kept[k]}
\* the place, among the kept interfaces, of the kept interface k
Place(k) == Cardinality({j \in KeptIndexes : j <= k})
UrlText(host) ==
    Cyan(urls.protocol \o "://" \o host \o ":" \o Bold(PortText(urls.port)) \o urls.base)

\* C11: with hostname.host = 127.0.0.1 exactly one Local message built from
\* hostname.name is handed to info, followed by the Network advisory exactly
\* when hostname.name is not 127.0.0.1; nothing else, whatever the interfaces.
C11_LoopbackBranch ==
    (urls.ran /\ urls.hostname.host = "127.0.0.1") =>
        /\ urls.lines =
              << "  > Local: " \o UrlText(urls.hostname.name) >>
              \o (IF urls.hostname.name = "127.0.0.1" THEN <<>>
                  ELSE << "  > Network: " \o Dim("use --host to expose") >>)
        /\ KeptIndexes = {}
\* host 127.0.0.1, name localhost, http, 5173, "/" with two interfaces present
C11_Witness ==
    /\ urls.ran /\ urls.hostname = [host |-> "127.0.0.1", name |-> "localhost"]
    /\ Len(urls.interfaces) = 2
    /\ urls.lines = << "  > Local: <cyan>http://localhost:<bold>5173</bold>/</cyan>",
                       "  > Network: <dim>use --host to expose</dim>" >>

\* C12: outside the loopback branch an IPv6 interface address is kept exactly
\* when the host is set, contains that address as a substring and is not "::";
\* with the host unset no message shows a bracketed (IPv6) host.
C12_IPv6Rule ==
    Wildcard =>
        /\ \A k \in 1..Len(Ifaces) :
              Ifaces[k].family = "IPv6" =>
                  (urls.kept[k] <=>
                      /\ urls.hostname.host # Undefined
                      /\ Includes(urls.hostname.host, Ifaces[k].address)
                      /\ urls.hostname.host # "::")
        /\ urls.hostname.host = Undefined =>
              \A i \in 1..Len(urls.lines) : ~Includes(urls.lines[i], "[")
\* host ::1 keeps the interface ::1 and drops fe80::1
C12_Witness ==
    /\ urls.ran /\ urls.hostname.host = "::1"
    /\ urls.interfaces = << [address |-> "::1", family |-> "IPv6"],
                            [address |-> "fe80::1", family |-> "IPv6"] >>
    /\ urls.kept = <<TRUE, FALSE>> /\ Len(urls.lines) = 1

\* C13: outside the loopback branch an IPv4 interface address a is kept
\* exactly when the host is unset, is 0.0.0.0, is ::, contains a, or a is
\* 127.0.0.1 itself and the host is not ::1.
C13_IPv4Rule ==
    Wildcard =>
        \A k \in 1..Len(Ifaces) :
            Ifaces[k].family = "IPv4" =>
                (urls.kept[k] <=>
                    \/ urls.hostname.host = Undefined
                    \/ urls.hostname.host = "0.0.0.0"
                    \/ urls.hostname.host = "::"
                    \/ Includes(urls.hostname.host, Ifaces[k].address)
                    \/ (Ifaces[k].address = "127.0.0.1" /\ urls.hostname.host # "::1"))

\* C14: a kept address is labelled Local exactly when it is 127.0.0.1 or ::1,
\* the host shown is hostname.name for 127.0.0.1 and the address otherwise,
\* in brackets exactly when it contains a colon.
ClaimedLabel(a) == IF a \in {"127.0.0.1", "::1"} THEN "Local:   " ELSE "Network: "
ClaimedHost(a) ==
    LET shown == IF a = "127.0.0.1" THEN urls.hostname.name ELSE a
    IN  IF Includes(shown, ":") THEN "[" \o shown \o "]" ELSE shown
C14_LabelAndHost ==
    Wildcard =>
        \A k \in KeptIndexes :
            /\ Place(k) <= Len(urls.lines)
            /\ urls.lines[Place(k)] =
                  "  > " \o ClaimedLabel(Ifaces[k].address) \o " "
                  \o UrlText(ClaimedHost(Ifaces[k].address))

\* C15: outside the loopback branch info receives exactly one message per
\* kept interface, in the order of the interface list: the j-th message is
\* the message of the j-th kept interface.
C15_OrderPreserved ==
    Wildcard =>
        /\ Len(urls.lines) = Cardinality(KeptIndexes)
        /\ \A k \in KeptIndexes :
              urls.lines[Place(k)] =
                  ToLine(urls.hostname, urls.protocol, urls.port, urls.base, Ifaces[k])
\* host unset, interfaces [127.0.0.1, 192.168.1.5], http, 3000, "/", name localhost
C15_Witness ==
    /\ urls.ran /\ urls.hostname = [host |-> Undefined, name |-> "localhost"]
    /\ urls.interfaces = << [address |-> "127.0.0.1", family |-> "IPv4"],
                            [address |-> "192.168.1.5", family |-> "IPv4"] >>
    /\ urls.lines = << "  > Local:    <cyan>http://localhost:<bold>3000</bold>/</cyan>",
                       "  > Network:  <cyan>http://192.168.1.5:<bold>3000</bold>/</cyan>" >>

\* C16: createLogger with a customLogger returns that very logger, whatever
\* level and other options are passed, and builds nothing: thresh,
\* hasWarned, warnedMessages and loggedErrors of the returned logger are
\* those the supplied logger already had.
C16_Returned == call.op = "customLogger" => call.logger = call.msg
C16_NothingBuilt == call'.op = "customLogger" => UNCHANGED programState
C16_CustomLoggerAsIs == []C16_Returned /\ [][C16_NothingBuilt]_vars
\* createLogger('silent', {customLogger}) hands back an info-level logger
\* that has warned, warned once and logged an error
C16_Witness ==
    /\ call.op = "customLogger" /\ call.type = "silent" /\ call.logger = Observed
    /\ thresh[Observed] = 3 /\ hasWarned[Observed]
    /\ warnedMessages[Observed] # {} /\ loggedErrors[Observed] # {}

\* a log call whose (type, msg) differs from (lastType, lastMsg)
DiffersFromLast == call'.op \in LogOps /\ ~(call'.type = lastType /\ call'.msg = lastMsg)
\* ... and that passes the gate of a logger that may clear the screen
ReachesElseBranch ==
    /\ DiffersFromLast
    /\ thresh[call'.logger] >= Rank(call'.type)
    /\ canClearScreen[call'.logger]

\* C17 as stated: every log call with a differing pair leaves the repeat
\* counter at 0, no other step decreases it, and it is never negative.
C17_ResetOnAnyDiffering == DiffersFromLast => sameCount' = 0
C17_AsStated ==
    /\ [](sameCount \in Nat)
    /\ [][C17_ResetOnAnyDiffering]_vars
    /\ [][~DiffersFromLast => sameCount' >= sameCount]_vars

\* C17: a log call with a differing pair that passes the gate of a logger
\* allowed to clear the screen leaves the repeat counter at 0; no other
\* step (a call filtered by the gate or made on a logger that may not clear
\* included) decreases it; the counter is never negative.
C17_NonNegative == sameCount \in Nat
C17_Reset == ReachesElseBranch => sameCount' = 0
C17_NoDecrease == ~ReachesElseBranch => sameCount' >= sameCount
C17_RepeatCounter ==
    []C17_NonNegative /\ [][C17_Reset]_vars /\ [][C17_NoDecrease]_vars
\* a differing call was filtered by the gate and the counter kept its value
C17_Witness ==
    /\ call.op \in LogOps
    /\ thresh[call.logger] < Rank(call.type)
    /\ ~(call.type = lastType /\ call.msg = lastMsg)
    /\ sameCount > 0

\* a log call that passes the gate of a logger that may clear the screen
AcceptedClearable ==
    /\ call'.op \in LogOps
    /\ thresh[call'.logger] >= Rank(call'.type)
    /\ canClearScreen[call'.logger]
RepeatsLast == call'.type = lastType /\ call'.msg = lastMsg

\* C18: on a logger that may clear the screen an accepted log call writes
\* to the console exactly once, clears at most once and never after the
\* write. A call repeating (lastType, lastMsg) clears and then writes with
\* the (x sameCount+1) suffix whatever options.clear is; a call with another
\* pair records the pair, clears iff options.clear, then writes without suffix.
C18_Repeat ==
    AcceptedClearable /\ RepeatsLast =>
        /\ Kinds(out') = <<"clear", "print">>
        /\ out'[2].suffix = XSuffix(sameCount' + 1)
        /\ sameCount' = sameCount + 1
C18_Other ==
    AcceptedClearable /\ ~RepeatsLast =>
        /\ lastType' = call'.type /\ lastMsg' = call'.msg
        /\ Kinds(out') = IF call'.clear THEN <<"clear", "print">> ELSE <<"print">>
        /\ out'[Len(out')].suffix = <<>>
C18_ClearThenPrint == [][C18_Repeat]_vars /\ [][C18_Other]_vars
\* a repeat made without options.clear cleared the screen and then wrote (x2)
C18_Witness ==
    /\ call.op \in LogOps /\ ~call.clear /\ canClearScreen[call.logger]
    /\ Kinds(out) = <<"clear", "print">>
    /\ out[2].suffix = XSuffix(2)

\* the console after every line of the report was written once, as it is
Verbatim(lines) ==
    [i \in 1..Len(lines) |->
        [kind |-> "print", method |-> "log", text |-> <<lines[i]>>, suffix |-> <<>>]]

\* C19: a URL report made through a logger with threshold info writes every
\* line of the URL algorithm exactly once, unchanged, without repeat suffix
\* and without clearing the screen, whatever the interface list and whether
\* or not the logger may clear; below info it writes nothing; when
\* server.address() is not an AddressInfo it writes nothing.
C19_UrlReport ==
    call.op = "printCommonServerUrls" =>
        /\ call.ret /\ thresh[call.logger] = Rank("info") => out = Verbatim(urls.lines)
        /\ call.ret /\ thresh[call.logger] < Rank("info") => out = <<>>
        /\ ~call.ret => out = <<>>

====
